---- MODULE Spec2Model ----
(***************************************************************************)
(* Model of Tools/dumper7_ue_vtable_db_generator.py: the header scanner    *)
(* (parse_header), the declaration classifier (_process_declaration,       *)
(* _extract_func_name), the registry built by build_vtable_db, the index   *)
(* resolver (_assign_base_indices) and the emitter (_format_output).       *)
(*                                                                         *)
(* Text is modelled as a sequence of tokens: every identifier, keyword or  *)
(* punctuation character is one token and " " is one whitespace character. *)
(* A function name is the sequence of the tokens it is made of, so that    *)
(* "~" + name is <<"~", name>>.                                            *)
(***************************************************************************)
EXTENDS Integers, Sequences, FiniteSets, TLC

\* ------------------------------------------------------------------------
\* Token classes
\* ------------------------------------------------------------------------

\* Tokens made of word characters only (regex \w+).
WordTokens ==
    {"virtual", "override", "class", "public", "void", "int", "const",
     "if", "ifdef", "ifndef", "elif", "else", "endif", "defined", "pragma",
     "once", "return", "unknown", "0",
     "WITH_EDITOR", "WITH_EDITORONLY_DATA", "WITH_EDITOR_ONLY_DATA", "X",
     "T", "O", "P", "Root", "Mid", "Leaf", "Ext",
     "f", "g", "h", "k", "m", "n", "p", "u", "x",
     "funcA", "funcB", "funcC", "funcD", "API"}

EDITOR_MACROS == {"WITH_EDITOR", "WITH_EDITORONLY_DATA", "WITH_EDITOR_ONLY_DATA"}

\* The character class [\w:*&<>,\s] of _RE_FUNC_NAME, token by token.
TypeTokens == WordTokens \cup {":", "*", "&", "<", ">", ",", " "}

Contains(s, t) == \E i \in 1..Len(s) : s[i] = t

RECURSIVE Count(_, _)
Count(s, t) ==
    IF s = <<>> THEN 0
    ELSE (IF Head(s) = t THEN 1 ELSE 0) + Count(Tail(s), t)

\* The least element of a non-empty set of integers.
Min(S) == CHOOSE x \in S : \A y \in S : x <= y

\* Positions reached from position i (the next token to read) by reading
\* zero or more whitespace tokens (regex \s*).
RECURSIVE SkipWs(_, _)
SkipWs(s, i) ==
    IF i <= Len(s) /\ s[i] = " " THEN SkipWs(s, i + 1) ELSE i

\* ------------------------------------------------------------------------
\* _RE_VIRTUAL, _RE_OVERRIDE, _RE_DESTRUCTOR, _RE_FUNC_NAME
\* ------------------------------------------------------------------------

RE_VIRTUAL(decl) == Contains(decl, "virtual")

RE_OVERRIDE(decl) == Contains(decl, "override")

\* virtual\s+~\s*(\w+)\s*\(  : the positions of the captured name, one per
\* position of "virtual" at which the pattern matches.
DestructorMatches(decl) ==
    {j \in 1..Len(decl) :
        \E i \in 1..Len(decl) :
            /\ decl[i] = "virtual"
            /\ i + 1 <= Len(decl) /\ decl[i + 1] = " "
            /\ LET a == SkipWs(decl, i + 1)
               IN  /\ a <= Len(decl) /\ decl[a] = "~"
                   /\ j = SkipWs(decl, a + 1)
                   /\ j <= Len(decl) /\ decl[j] \in WordTokens
                   /\ LET c == SkipWs(decl, j + 1)
                      IN  c <= Len(decl) /\ decl[c] = "("}

\* virtual\s+(?:[\w:*&<>,\s]+?)\s+(\w+)\s*\(  : the positions j of a
\* captured name for a match starting at the "virtual" at position i.  The
\* text between "virtual" and the name starts with whitespace, ends with
\* whitespace, holds at least one character of the class in between, and
\* whitespace belongs to the class.
FuncNameAt(decl, i) ==
    {j \in (i + 4)..Len(decl) :
        /\ decl[i] = "virtual"
        /\ decl[i + 1] = " "
        /\ decl[j - 1] = " "
        /\ \A q \in (i + 1)..(j - 1) : decl[q] \in TypeTokens
        /\ decl[j] \in WordTokens
        /\ LET c == SkipWs(decl, j + 1)
           IN  c <= Len(decl) /\ decl[c] = "("}

FuncNameStarts(decl) == {i \in 1..Len(decl) : FuncNameAt(decl, i) # {}}

\* str.split("(")[0]: the text before the first "(".
RECURSIVE BeforeParen(_)
BeforeParen(s) ==
    IF s = <<>> \/ Head(s) = "(" THEN <<>>
    ELSE <<Head(s)>> \o BeforeParen(Tail(s))

\* str.split(): the maximal runs of non-whitespace tokens, in order.
RECURSIVE SplitWs(_, _)
SplitWs(s, cur) ==
    IF s = <<>> THEN (IF cur = <<>> THEN <<>> ELSE <<cur>>)
    ELSE IF Head(s) = " "
         THEN (IF cur = <<>> THEN <<>> ELSE <<cur>>) \o SplitWs(Tail(s), <<>>)
         ELSE SplitWs(Tail(s), Append(cur, Head(s)))

\* str.lstrip("*&")
RECURSIVE LStripPtr(_)
LStripPtr(s) ==
    IF s # <<>> /\ Head(s) \in {"*", "&"} THEN LStripPtr(Tail(s)) ELSE s

\* _extract_func_name with a fallback that never reports a destructor.
extract_func_name_fallback_plain(decl) ==
    LET dm == DestructorMatches(decl)
        fs == FuncNameStarts(decl)
    IN  IF dm # {} THEN <<(<<"~", decl[Min(dm)]>>), TRUE>>
        ELSE IF fs # {}
        THEN <<(<<decl[Min(FuncNameAt(decl, Min(fs)))]>>), FALSE>>
        ELSE LET parts == SplitWs(BeforeParen(decl), <<>>)
                 name  == IF parts = <<>> THEN <<>>
                          ELSE LStripPtr(parts[Len(parts)])
             IN  IF /\ \E i \in 1..Len(parts) :
                          parts[i] = <<"virtual">> /\ i + 1 <= Len(parts)
                    /\ name # <<>>
                 THEN <<name, FALSE>>
                 ELSE <<(<<"unknown">>), FALSE>>

\* _extract_func_name: <<name, is_destructor>>.
extract_func_name(decl) ==
    LET dm == DestructorMatches(decl)
        fs == FuncNameStarts(decl)
    IN  IF dm # {} THEN <<(<<"~", decl[Min(dm)]>>), TRUE>>
        ELSE IF fs # {}
        THEN <<(<<decl[Min(FuncNameAt(decl, Min(fs)))]>>), FALSE>>
        ELSE LET parts == SplitWs(BeforeParen(decl), <<>>)
                 name  == IF parts = <<>> THEN <<>>
                          ELSE LStripPtr(parts[Len(parts)])
             IN  IF /\ \E i \in 1..Len(parts) :
                          parts[i] = <<"virtual">> /\ i + 1 <= Len(parts)
                    /\ name # <<>>
                 THEN <<name, Head(name) = "~">>
                 ELSE <<(<<"unknown">>), FALSE>>

\* class VirtualFunction
VirtualFunction(name, is_dtor, line_no) ==
    [name |-> name, is_destructor |-> is_dtor, line_number |-> line_no]

\* _process_declaration with the destructor recognised before the override
\* check: a destructor declared with override gets a slot.
process_declaration_destructor_first(decl, line_no, results) ==
    IF ~RE_VIRTUAL(decl) THEN results
    ELSE IF DestructorMatches(decl) = {} /\ RE_OVERRIDE(decl) THEN results
    ELSE LET e == extract_func_name(decl)
         IN  Append(results, VirtualFunction(e[1], e[2], line_no))

\* _process_declaration without the override check.
process_declaration_keeps_override(decl, line_no, results) ==
    IF ~RE_VIRTUAL(decl) THEN results
    ELSE LET e == extract_func_name(decl)
         IN  Append(results, VirtualFunction(e[1], e[2], line_no))

\* _process_declaration: the results list after the call.
process_declaration(decl, line_no, results) ==
    IF ~RE_VIRTUAL(decl) THEN results
    ELSE IF RE_OVERRIDE(decl) THEN results
    ELSE LET e == extract_func_name(decl)
         IN  Append(results, VirtualFunction(e[1], e[2], line_no))

\* ------------------------------------------------------------------------
\* Preprocessor directives
\* ------------------------------------------------------------------------

\* str.strip()
RECURSIVE LStrip(_)
LStrip(s) == IF s # <<>> /\ Head(s) = " " THEN LStrip(Tail(s)) ELSE s

RECURSIVE RStrip(_)
RStrip(s) ==
    IF s # <<>> /\ s[Len(s)] = " " THEN RStrip(SubSeq(s, 1, Len(s) - 1)) ELSE s

Strip(s) == RStrip(LStrip(s))

\* re.match(r"#\s*<word>", line) for the words that start with the keyword.
DirectiveWord(line, words) ==
    /\ line # <<>> /\ line[1] = "#"
    /\ LET a == SkipWs(line, 2) IN a <= Len(line) /\ line[a] \in words

IsIfDirective(line)    == DirectiveWord(line, {"if", "ifdef", "ifndef"})
IsElifDirective(line)  == DirectiveWord(line, {"elif"})
IsElseDirective(line)  == DirectiveWord(line, {"else"})
IsEndifDirective(line) == DirectiveWord(line, {"endif"})

\* _is_editor_ifdef:
\*   #\s*if\s+(defined\s*\(\s*MACRO\s*\)|MACRO\b)   or   #\s*ifdef\s+MACRO\b
is_editor_ifdef(line) ==
    LET stripped == Strip(line)
        n == Len(stripped)
        a == SkipWs(stripped, 2)
        b == SkipWs(stripped, a + 1)
    IN  /\ stripped # <<>> /\ stripped[1] = "#"
        /\ a <= n
        /\ a + 1 <= n /\ stripped[a + 1] = " "
        /\ b <= n
        /\ IF stripped[a] = "if"
           THEN \/ stripped[b] \in EDITOR_MACROS
                \/ /\ stripped[b] = "defined"
                   /\ LET c == SkipWs(stripped, b + 1)
                          d == SkipWs(stripped, c + 1)
                          e == SkipWs(stripped, d + 1)
                      IN  /\ c <= n /\ stripped[c] = "("
                          /\ d <= n /\ stripped[d] \in EDITOR_MACROS
                          /\ e <= n /\ stripped[e] = ")"
           ELSE stripped[a] = "ifdef" /\ stripped[b] \in EDITOR_MACROS

\* ------------------------------------------------------------------------
\* parse_header: the scanner state and its step on one line
\* ------------------------------------------------------------------------

\* The locals of parse_header before the first line (lines 189-203).
\* handed and flipped are no locals of the program: handed records the
\* declaration that the line just read passed to _process_declaration
\* (<<>> when it passed none), flipped that the line just read was an #else
\* that took lines 221-222.
ScanInit ==
    [results |-> <<>>, editor_depth |-> 0, pp_depth_stack |-> <<>>,
     in_class |-> FALSE, brace_depth |-> 0, class_brace_depth |-> 0,
     accum |-> <<>>, accum_start_line |-> 0, handed |-> <<>>,
     flipped |-> FALSE]

\* class_pattern: \bclass\b[^;]*?\bNAME\b searched in the raw line.
class_pattern(raw_line, class_name) ==
    \E i \in 1..Len(raw_line), j \in 1..Len(raw_line) :
        /\ i < j
        /\ raw_line[i] = "class"
        /\ raw_line[j] = class_name
        /\ \A q \in (i + 1)..(j - 1) : raw_line[q] # ";"

\* The preprocessor branch with an #endif that lowers editor_depth
\* whatever the level it closes.
ScanDirectiveEndifLowers(st, line) ==
    IF IsIfDirective(line)
    THEN LET is_editor == is_editor_ifdef(line)
         IN  [st EXCEPT !.pp_depth_stack = Append(@, is_editor),
                        !.editor_depth = IF is_editor THEN @ + 1 ELSE @]
    ELSE IF IsElifDirective(line) THEN st
    ELSE IF IsElseDirective(line)
    THEN IF /\ st.pp_depth_stack # <<>>
            /\ st.pp_depth_stack[Len(st.pp_depth_stack)]
            /\ st.editor_depth > 0
         THEN [st EXCEPT !.editor_depth = @ - 1,
                         !.pp_depth_stack[Len(st.pp_depth_stack)] = FALSE,
                         !.flipped = TRUE]
         ELSE st
    ELSE IF IsEndifDirective(line)
    THEN [st EXCEPT !.pp_depth_stack =
                        IF @ = <<>> THEN @ ELSE SubSeq(@, 1, Len(@) - 1),
                    !.editor_depth = @ - 1]
    ELSE st

\* The preprocessor branch with an #else that lowers editor_depth and
\* leaves the flag of its level set.
ScanDirectiveElseKeepsFlag(st, line) ==
    IF IsIfDirective(line)
    THEN LET is_editor == is_editor_ifdef(line)
         IN  [st EXCEPT !.pp_depth_stack = Append(@, is_editor),
                        !.editor_depth = IF is_editor THEN @ + 1 ELSE @]
    ELSE IF IsElifDirective(line) THEN st
    ELSE IF IsElseDirective(line)
    THEN IF /\ st.pp_depth_stack # <<>>
            /\ st.pp_depth_stack[Len(st.pp_depth_stack)]
            /\ st.editor_depth > 0
         THEN [st EXCEPT !.editor_depth = @ - 1, !.flipped = TRUE]
         ELSE st
    ELSE IF IsEndifDirective(line)
    THEN IF st.pp_depth_stack # <<>>
         THEN LET was_editor == st.pp_depth_stack[Len(st.pp_depth_stack)]
              IN  [st EXCEPT !.pp_depth_stack = SubSeq(@, 1, Len(@) - 1),
                             !.editor_depth =
                                 IF was_editor /\ @ > 0 THEN @ - 1 ELSE @]
         ELSE st
    ELSE st

\* The preprocessor branch with an #elif that closes the branch before it
\* and opens a new one: the flag of its level becomes that of its own
\* condition.
ScanDirectiveElifReopens(st, line) ==
    IF IsIfDirective(line)
    THEN LET is_editor == is_editor_ifdef(line)
         IN  [st EXCEPT !.pp_depth_stack = Append(@, is_editor),
                        !.editor_depth = IF is_editor THEN @ + 1 ELSE @]
    ELSE IF IsElifDirective(line)
    THEN IF st.pp_depth_stack # <<>>
         THEN LET n         == Len(st.pp_depth_stack)
                  was       == st.pp_depth_stack[n]
                  is_editor == \E q \in 1..Len(line) :
                                   line[q] \in EDITOR_MACROS
              IN  [st EXCEPT
                     !.pp_depth_stack[n] = is_editor,
                     !.editor_depth = @ - (IF was /\ @ > 0 THEN 1 ELSE 0)
                                        + (IF is_editor THEN 1 ELSE 0)]
         ELSE st
    ELSE IF IsElseDirective(line)
    THEN IF /\ st.pp_depth_stack # <<>>
            /\ st.pp_depth_stack[Len(st.pp_depth_stack)]
            /\ st.editor_depth > 0
         THEN [st EXCEPT !.editor_depth = @ - 1,
                         !.pp_depth_stack[Len(st.pp_depth_stack)] = FALSE,
                         !.flipped = TRUE]
         ELSE st
    ELSE IF IsEndifDirective(line)
    THEN IF st.pp_depth_stack # <<>>
         THEN LET was_editor == st.pp_depth_stack[Len(st.pp_depth_stack)]
              IN  [st EXCEPT !.pp_depth_stack = SubSeq(@, 1, Len(@) - 1),
                             !.editor_depth =
                                 IF was_editor /\ @ > 0 THEN @ - 1 ELSE @]
         ELSE st
    ELSE st

\* Lines 209-228: the preprocessor branch (the line starts with "#").
ScanDirective(st, line) ==
    IF IsIfDirective(line)
    THEN LET is_editor == is_editor_ifdef(line)
         IN  [st EXCEPT !.pp_depth_stack = Append(@, is_editor),
                        !.editor_depth = IF is_editor THEN @ + 1 ELSE @]
    ELSE IF IsElifDirective(line) THEN st
    ELSE IF IsElseDirective(line)
    THEN IF /\ st.pp_depth_stack # <<>>
            /\ st.pp_depth_stack[Len(st.pp_depth_stack)]
            /\ st.editor_depth > 0
         THEN [st EXCEPT !.editor_depth = @ - 1,
                         !.pp_depth_stack[Len(st.pp_depth_stack)] = FALSE,
                         !.flipped = TRUE]
         ELSE st
    ELSE IF IsEndifDirective(line)
    THEN IF st.pp_depth_stack # <<>>
         THEN LET was_editor == st.pp_depth_stack[Len(st.pp_depth_stack)]
              IN  [st EXCEPT !.pp_depth_stack = SubSeq(@, 1, Len(@) - 1),
                             !.editor_depth =
                                 IF was_editor /\ @ > 0 THEN @ - 1 ELSE @]
         ELSE st
    ELSE st

\* Lines 235-245: not in the class; look for the line that opens it.
ScanClassOpen(st, raw_line, class_name) ==
    IF class_pattern(raw_line, class_name)
    THEN LET d == Count(raw_line, "{") - Count(raw_line, "}")
         IN  [st EXCEPT !.in_class = TRUE,
                        !.brace_depth = IF d <= 0 THEN 0 ELSE d,
                        !.class_brace_depth = IF d <= 0 THEN 0 ELSE 1]
    ELSE st

\* Accumulation that completes a buffer only on ";" or on both braces: the
\* branch of lines 270-273 is left out.
ScanAccumulateWaitsForPair(st, line, line_no) ==
    IF st.accum # <<>> \/ RE_VIRTUAL(line)
    THEN LET start == IF st.accum = <<>> THEN line_no
                      ELSE st.accum_start_line
             acc   == st.accum \o <<" ">> \o line
         IN  IF \/ Contains(acc, ";")
                \/ (Contains(acc, "{") /\ Contains(acc, "}"))
             THEN [st EXCEPT
                     !.results = process_declaration(acc, start, @),
                     !.accum = <<>>,
                     !.accum_start_line = start,
                     !.handed = acc]
             ELSE [st EXCEPT !.accum = acc, !.accum_start_line = start]
    ELSE st

\* Lines 261-273: accumulate the line and hand a complete declaration to
\* _process_declaration.
ScanAccumulate(st, line, line_no) ==
    IF st.accum # <<>> \/ RE_VIRTUAL(line)
    THEN LET start == IF st.accum = <<>> THEN line_no
                      ELSE st.accum_start_line
             acc   == st.accum \o <<" ">> \o line
         IN  IF \/ Contains(acc, ";")
                \/ (Contains(acc, "{") /\ Contains(acc, "}"))
                \/ Contains(acc, "{")
             THEN [st EXCEPT
                     !.results = process_declaration(acc, start, @),
                     !.accum = <<>>,
                     !.accum_start_line = start,
                     !.handed = acc]
             ELSE [st EXCEPT !.accum = acc, !.accum_start_line = start]
    ELSE st

\* The class-body branch with the pending buffer dropped when the scope of
\* the class is left.
ScanClassBodyClearsOnExit(st, raw_line, line, line_no) ==
    LET opens  == Count(raw_line, "{")
        closes == Count(raw_line, "}")
        bd     == st.brace_depth + opens - closes
        cbd    == IF st.class_brace_depth = 0 /\ opens > 0 THEN bd
                  ELSE st.class_brace_depth
        st1    == [st EXCEPT !.brace_depth = bd, !.class_brace_depth = cbd]
    IN  IF bd <= 0 /\ cbd > 0
        THEN [st1 EXCEPT !.in_class = FALSE, !.accum = <<>>]
        ELSE ScanAccumulate(st1, line, line_no)

\* Lines 248-273: in the class; track the braces, then accumulate.
ScanClassBody(st, raw_line, line, line_no) ==
    LET opens  == Count(raw_line, "{")
        closes == Count(raw_line, "}")
        bd     == st.brace_depth + opens - closes
        cbd    == IF st.class_brace_depth = 0 /\ opens > 0 THEN bd
                  ELSE st.class_brace_depth
        st1    == [st EXCEPT !.brace_depth = bd, !.class_brace_depth = cbd]
    IN  IF bd <= 0 /\ cbd > 0
        THEN [st1 EXCEPT !.in_class = FALSE]
        ELSE ScanAccumulate(st1, line, line_no)

\* One iteration of the loop of parse_header without the check of
\* editor_depth: guarded lines are scanned like any other.
ScanLineIgnoresGuards(st0, line_no, raw_line, class_name) ==
    LET line == Strip(raw_line)
        st   == [st0 EXCEPT !.handed = <<>>, !.flipped = FALSE]
    IN  IF line # <<>> /\ line[1] = "#" THEN ScanDirective(st, line)
        ELSE IF ~st.in_class THEN ScanClassOpen(st, raw_line, class_name)
        ELSE ScanClassBody(st, raw_line, line, line_no)

\* One iteration of the loop of parse_header (lines 205-273).
ScanLine(st0, line_no, raw_line, class_name) ==
    LET line == Strip(raw_line)
        st   == [st0 EXCEPT !.handed = <<>>, !.flipped = FALSE]
    IN  IF line # <<>> /\ line[1] = "#" THEN ScanDirective(st, line)
        ELSE IF st.editor_depth > 0 THEN st
        ELSE IF ~st.in_class THEN ScanClassOpen(st, raw_line, class_name)
        ELSE ScanClassBody(st, raw_line, line, line_no)

\* parse_header on a file that exists: the loop over all its lines.
RECURSIVE ScanFrom(_, _, _, _)
ScanFrom(st, lines, line_no, class_name) ==
    IF line_no > Len(lines) THEN st
    ELSE ScanFrom(ScanLine(st, line_no, lines[line_no], class_name),
                  lines, line_no + 1, class_name)

ParseLines(lines, class_name) == ScanFrom(ScanInit, lines, 1, class_name).results

\* ------------------------------------------------------------------------
\* The configuration and the header files of a run of build_vtable_db
\* ------------------------------------------------------------------------

\* parent_name of a class configured without parent (Python None).
None == "None"

\* The class names a configuration may list, and a parent name that no
\* configuration lists as a class.
ClassNames == {"Root", "Mid", "Leaf"}
ParentNames == ClassNames \cup {"Ext", None}

\* What is found at a header path: no file, or one of two files.
HeaderKinds == {"missing", "scenario", "alt"}

Decl(ret, name) ==
    <<"virtual", " ", ret, " ", name, "(", ")", ";">>

\* The text of the header of class c.  "scenario": Root declares funcA and
\* funcB; Mid declares funcC, its destructor and an override of funcA; Leaf
\* declares nothing.  "alt": a destructor followed by one function, with
\* the opening brace on a line of its own.
HeaderText(c, kind) ==
    IF kind = "alt"
    THEN << <<"class", " ", c>>,
            <<"{">>,
            <<"virtual", " ", "~", c, "(", ")", ";">>,
            <<"virtual", " ", "int", "*", " ", "funcD", "(", ")", ";">>,
            <<"}", ";">> >>
    ELSE IF c = "Root"
    THEN << <<"class", " ", c, " ", "{">>,
            Decl("void", "funcA"),
            Decl("void", "funcB"),
            <<"}", ";">> >>
    ELSE IF c = "Mid"
    THEN << <<"class", " ", c, " ", ":", " ", "public", " ", "Root", " ", "{">>,
            Decl("void", "funcC"),
            <<"virtual", " ", "~", c, "(", ")", ";">>,
            <<"virtual", " ", "void", " ", "funcA", "(", ")", " ",
              "override", ";">>,
            <<"}", ";">> >>
    ELSE << <<"class", " ", c, " ", ":", " ", "public", " ", "Mid", " ", "{">>,
            <<"}", ";">> >>

\* The parent named by a `: public <Parent>` clause of a line, None when
\* the line has no such clause.
DeclaredParent(line) ==
    IF \E q \in 1..Len(line) :
          /\ line[q] = "public"
          /\ \E r \in 1..(q - 1) : line[r] = ":"
          /\ SkipWs(line, q + 1) <= Len(line)
    THEN LET q == CHOOSE q \in 1..Len(line) : line[q] = "public"
         IN  line[SkipWs(line, q + 1)]
    ELSE None

\* The parent that the header of class c declares on the line opening the
\* class, None when there is no header or no clause.
HeaderParent(c, kind) ==
    IF kind = "missing" THEN None
    ELSE DeclaredParent(HeaderText(c, kind)[1])

\* parse_header (lines 180-187, 275): a missing file gives no functions.
parse_header(kind, class_name) ==
    IF kind = "missing" THEN <<>>
    ELSE ParseLines(HeaderText(class_name, kind), class_name)

\* class ClassVTable
ClassVTable(class_name, parent_name, own_functions) ==
    [class_name |-> class_name, parent_name |-> parent_name,
     own_functions |-> own_functions, base_index |-> 0]

\* The slot count with a destructor counted as one slot.
own_slots_flat(funcs) == Len(funcs)

\* Lines 327-332 of resolve: destructors occupy two slots.
RECURSIVE own_slots(_)
own_slots(funcs) ==
    IF funcs = <<>> THEN 0
    ELSE (IF Head(funcs).is_destructor THEN 2 ELSE 1) + own_slots(Tail(funcs))

\* The walk of _format_output advancing by one slot for every function.
RECURSIVE format_functions_unit(_, _, _)
format_functions_unit(funcs, idx, acc) ==
    IF funcs = <<>> THEN <<acc, idx>>
    ELSE format_functions_unit(
             Tail(funcs), idx + 1,
             Append(acc, <<idx, Head(funcs).name, Head(funcs).is_destructor>>))

\* Lines 347-355 of _format_output: <<functions, idx>> after the walk over
\* own_functions starting at idx.
RECURSIVE format_functions(_, _, _)
format_functions(funcs, idx, acc) ==
    IF funcs = <<>> THEN <<acc, idx>>
    ELSE format_functions(
             Tail(funcs),
             IF Head(funcs).is_destructor THEN idx + 2 ELSE idx + 1,
             Append(acc, <<idx, Head(funcs).name, Head(funcs).is_destructor>>))

\* The record of a class with total_slots taken as base_index + own_count.
format_class_by_count(vtable) ==
    LET w == format_functions(vtable.own_functions, vtable.base_index, <<>>)
    IN  [parent |-> vtable.parent_name,
         base_index |-> vtable.base_index,
         own_count |-> Len(vtable.own_functions),
         total_slots |-> vtable.base_index + Len(vtable.own_functions),
         functions |-> w[1]]

\* Lines 357-363 of _format_output: the record emitted for one class.
format_class(vtable) ==
    LET w == format_functions(vtable.own_functions, vtable.base_index, <<>>)
    IN  [parent |-> vtable.parent_name,
         base_index |-> vtable.base_index,
         own_count |-> Len(vtable.own_functions),
         total_slots |-> w[2],
         functions |-> w[1]]

\* Python's truth value of parent_name.
Truthy(parent_name) == parent_name # None

\* The depth at which the interpreter raises RecursionError, scaled down.
MaxDepth == 5

\* ------------------------------------------------------------------------
\* The header as the specification reads it (sections 3 and 4.1): which
\* lines lie in the body of the target class, which lie in an editor-only
\* block, and which declarations the body holds: the numbers of the lines
\* with a `virtual` that lie in the body of the target class in an
\* editor-only block (guarded) or outside the body of the target class
\* (outside), and the names declared in the body (expected).  None of this is read by the program; the properties
\* compare the program's result with it.
\* ------------------------------------------------------------------------

\* A conditional-open directive whose condition names an editor-only macro
\* and does not negate it.
NamesEditorMacro(line) ==
    /\ DirectiveWord(line, {"if", "ifdef"})
    /\ \E q \in 1..Len(line) : line[q] \in EDITOR_MACROS
    /\ ~Contains(line, "!")

\* The line that opens the definition of class_name: "class NAME", not
\* followed by ";".
TargetHead(line, class_name) ==
    LET a == SkipWs(line, 2)
        b == SkipWs(line, a + 1)
    IN  /\ line # <<>> /\ line[1] = "class"
        /\ a <= Len(line) /\ line[a] = class_name
        /\ (b <= Len(line) => line[b] # ";")

\* The text of a line up to and including its first ";", and what follows.
RECURSIVE UpToSemi(_)
UpToSemi(s) ==
    IF s = <<>> THEN <<>>
    ELSE IF Head(s) = ";" THEN <<";">>
    ELSE <<Head(s)>> \o UpToSemi(Tail(s))

\* The name a well-formed declaration declares: the identifier before its
\* first "(", with "~" in front for a destructor.
DeclaredName(stmt) ==
    LET b == BeforeParen(stmt)
        r == RStrip(b)
        n == Len(r)
    IN  IF n >= 2 /\ r[n - 1] = "~" THEN <<"~", r[n]>> ELSE <<r[n]>>

\* The names of the complete (";"-terminated) non-override virtual
\* declarations written on a line, in order.
RECURSIVE DeclaredOn(_)
DeclaredOn(line) ==
    IF ~Contains(line, ";") THEN <<>>
    ELSE LET stmt == UpToSemi(line)
             rest == SubSeq(line, Len(stmt) + 1, Len(line))
         IN  (IF /\ Contains(stmt, "virtual") /\ ~Contains(stmt, "override")
                 /\ Contains(stmt, "(")
              THEN <<DeclaredName(stmt)>> ELSE <<>>) \o DeclaredOn(rest)

RefInit ==
    [scope |-> "out", depth |-> 0, guards |-> <<>>, lines |-> 0,
     guarded |-> {}, outside |-> {}, expected |-> <<>>]

RefGuarded(r) == \E q \in 1..Len(r.guards) : r.guards[q]

\* A directive line.
RefDirective(r, line) ==
    LET g == r.guards
        r1 == [r EXCEPT !.lines = @ + 1]
    IN  IF IsIfDirective(line)
        THEN [r1 EXCEPT !.guards = Append(g, NamesEditorMacro(line))]
        ELSE IF IsElseDirective(line) /\ g # <<>>
        THEN [r1 EXCEPT !.guards[Len(g)] = FALSE]
        ELSE IF IsEndifDirective(line) /\ g # <<>>
        THEN [r1 EXCEPT !.guards = SubSeq(g, 1, Len(g) - 1)]
        ELSE r1

\* A line of code outside every editor-only block.
RefCode(r, line, class_name) ==
    LET opens  == Count(line, "{")
        closes == Count(line, "}")
        head   == r.scope = "out" /\ TargetHead(line, class_name)
        d      == IF r.scope = "body" THEN r.depth + opens - closes
                  ELSE IF (head \/ r.scope = "head") /\ opens > 0
                  THEN opens - closes
                  ELSE 0
        scope2 == IF d > 0 THEN "body"
                  ELSE IF (head \/ r.scope = "head") /\ opens = 0 THEN "head"
                  ELSE "out"
        kind   == IF scope2 = "body" /\ (r.scope = "body" \/ head) THEN "body"
                  ELSE IF r.scope = "out" /\ ~head THEN "outside"
                  ELSE "edge"
    IN  [r EXCEPT !.scope = scope2,
                  !.depth = IF d > 0 THEN d ELSE 0,
                  !.lines = @ + 1,
                  !.outside = IF kind = "outside" /\ Contains(line, "virtual")
                              THEN @ \cup {r.lines + 1} ELSE @,
                  !.expected = IF kind = "body" THEN @ \o DeclaredOn(line)
                               ELSE @]

RefStep(r, raw, class_name) ==
    LET line == Strip(raw)
    IN  IF line # <<>> /\ line[1] = "#" THEN RefDirective(r, line)
        ELSE IF RefGuarded(r)
        THEN [r EXCEPT !.lines = @ + 1,
                       !.guarded = IF r.scope = "body" /\ Contains(line, "virtual")
                                   THEN @ \cup {r.lines + 1} ELSE @]
        ELSE RefCode(r, line, class_name)

\* ------------------------------------------------------------------------
\* State
\* ------------------------------------------------------------------------

VARIABLES
    config,      \* CLASS_DEFINITIONS: <<class_name, parent_name, header>>
    pc,          \* where build_vtable_db is
    cursor,      \* the next index of the loop that is running
    class_map,   \* the registry: class name -> ClassVTable
    order,       \* the iteration order of class_map (insertion order)
    resolved,    \* the memo table of _assign_base_indices
    stack,       \* the active calls of resolve, innermost last
    ret,         \* the value the last finished call of resolve returned
    classes,     \* the "classes" object _format_output builds
    body_runs,   \* name -> times resolve(name) ran past its memo check
    base_writes, \* name -> times base_index of the class was assigned
    scan,        \* the locals of parse_header, line by line
    line_no,     \* the number of the last line parse_header has read
    raw_line,    \* that line
    ref,         \* the header read so far as the specification reads it
    split        \* a declaration, and parse_header reading it on one line

pvars == <<config, pc, cursor, class_map, order, resolved, stack, ret, classes,
           body_runs, base_writes>>
svars == <<scan, line_no, raw_line, ref, split>>
vars == <<config, pc, cursor, class_map, order, resolved, stack, ret, classes,
          body_runs, base_writes, scan, line_no, raw_line, ref, split>>

\* A function as a Python dict: the value at key k set to v.
Put(d, key, v) ==
    [x \in DOMAIN d \cup {key} |-> IF x = key THEN v ELSE d[x]]

EmptyDict == [x \in {} |-> 0]

\* The counter d with one more at key.
Bump(d, key) ==
    Put(d, key, IF key \in DOMAIN d THEN d[key] + 1 ELSE 1)

\* The configurations: lists of classes with distinct names, each with any
\* parent name (itself, a later class and an unlisted class included) and
\* any header.
Configs ==
    {cfg \in UNION {[1..n -> ClassNames \X ParentNames \X HeaderKinds] :
                        n \in 1..Cardinality(ClassNames)} :
        \A a \in DOMAIN cfg, b \in DOMAIN cfg : cfg[a][1] = cfg[b][1] => a = b}

\* No declaration is under comparison.
NoSplit == [decl |-> <<>>, cuts |-> <<0, 0>>, one |-> ScanInit, one_no |-> 0]

ScanIdle ==
    /\ scan = ScanInit
    /\ line_no = 0
    /\ raw_line = <<>>
    /\ ref = RefInit
    /\ split = NoSplit

Init ==
    /\ config \in Configs
    /\ pc = "scan"
    /\ cursor = 1
    /\ class_map = EmptyDict
    /\ order = <<>>
    /\ resolved = EmptyDict
    /\ stack = <<>>
    /\ ret = 0
    /\ classes = EmptyDict
    /\ body_runs = EmptyDict
    /\ base_writes = EmptyDict
    /\ ScanIdle

\* ------------------------------------------------------------------------
\* build_vtable_db
\* ------------------------------------------------------------------------

\* The loop over CLASS_DEFINITIONS giving up at the first missing header:
\* the classes listed after it are never scanned.
ScanClassStopsAtMissing ==
    /\ pc = "scan"
    /\ cursor <= Len(config)
    /\ LET class_name  == config[cursor][1]
           parent_name == config[cursor][2]
           own_funcs   == parse_header(config[cursor][3], class_name)
       IN  /\ class_map' = Put(class_map, class_name,
                               ClassVTable(class_name, parent_name, own_funcs))
           /\ order' = IF class_name \in DOMAIN class_map THEN order
                       ELSE Append(order, class_name)
    /\ cursor' = IF config[cursor][3] = "missing" THEN Len(config) + 1
                 ELSE cursor + 1
    /\ UNCHANGED <<config, pc, resolved, stack, ret, classes, svars,
                   body_runs, base_writes>>

\* The loop over CLASS_DEFINITIONS recording the parent that the header
\* declares, when it declares one, in place of the configured parent.
ScanClassParentFromHeader ==
    /\ pc = "scan"
    /\ cursor <= Len(config)
    /\ LET class_name  == config[cursor][1]
           declared    == HeaderParent(class_name, config[cursor][3])
           parent_name == IF declared # None THEN declared
                          ELSE config[cursor][2]
           own_funcs   == parse_header(config[cursor][3], class_name)
       IN  /\ class_map' = Put(class_map, class_name,
                               ClassVTable(class_name, parent_name, own_funcs))
           /\ order' = IF class_name \in DOMAIN class_map THEN order
                       ELSE Append(order, class_name)
    /\ cursor' = cursor + 1
    /\ UNCHANGED <<config, pc, resolved, stack, ret, classes, svars,
                   body_runs, base_writes>>

\* Lines 286-299: one iteration of the loop over CLASS_DEFINITIONS.
ScanClass ==
    /\ pc = "scan"
    /\ cursor <= Len(config)
    /\ LET class_name  == config[cursor][1]
           parent_name == config[cursor][2]
           own_funcs   == parse_header(config[cursor][3], class_name)
       IN  /\ class_map' = Put(class_map, class_name,
                               ClassVTable(class_name, parent_name, own_funcs))
           /\ order' = IF class_name \in DOMAIN class_map THEN order
                       ELSE Append(order, class_name)
    /\ cursor' = cursor + 1
    /\ UNCHANGED <<config, pc, resolved, stack, ret, classes, svars,
                   body_runs, base_writes>>

\* The call of _assign_base_indices made as soon as one class is
\* registered, with classes still to scan.
BeginResolveEarly ==
    /\ pc = "scan"
    /\ cursor > 1
    /\ pc' = "resolve"
    /\ cursor' = 1
    /\ resolved' = EmptyDict
    /\ UNCHANGED <<config, class_map, order, stack, ret, classes, svars,
                   body_runs, base_writes>>

\* Line 302 and 310: the call of _assign_base_indices, with an empty memo.
BeginResolve ==
    /\ pc = "scan"
    /\ cursor > Len(config)
    /\ pc' = "resolve"
    /\ cursor' = 1
    /\ resolved' = EmptyDict
    /\ UNCHANGED <<config, class_map, order, stack, ret, classes, svars,
                   body_runs, base_writes>>

\* Lines 338-339: the loop over class_map calls resolve(name).
ResolveNext ==
    /\ pc = "resolve"
    /\ stack = <<>>
    /\ cursor <= Len(order)
    /\ stack' = <<[name |-> order[cursor], at |-> "enter"]>>
    /\ cursor' = cursor + 1
    /\ UNCHANGED <<config, pc, class_map, order, resolved, ret, classes, svars,
                   body_runs, base_writes>>

Top == stack[Len(stack)]
Pop == SubSeq(stack, 1, Len(stack) - 1)

\* The rest of resolve(name) with base_index written after the own slots
\* were added.
FinishBaseIsTotal(name, parent_total) ==
    /\ class_map' = [class_map EXCEPT ![name].base_index =
                        parent_total + own_slots(class_map[name].own_functions)]
    /\ resolved' = Put(resolved, name,
                       parent_total + own_slots(class_map[name].own_functions))
    /\ ret' = parent_total + own_slots(class_map[name].own_functions)
    /\ stack' = Pop
    /\ pc' = pc
    /\ base_writes' = Bump(base_writes, name)

\* The rest of resolve(name) assigning base_index twice: first the default,
\* then the parent's total.
FinishWritesTwice(name, parent_total) ==
    /\ class_map' = [class_map EXCEPT ![name].base_index = parent_total]
    /\ resolved' = Put(resolved, name,
                       parent_total + own_slots(class_map[name].own_functions))
    /\ ret' = parent_total + own_slots(class_map[name].own_functions)
    /\ stack' = Pop
    /\ pc' = pc
    /\ base_writes' = Bump(Bump(base_writes, name), name)

\* The rest of resolve(name) returning and memoizing the slots of the class
\* alone, without the total of its parent.
FinishTotalIsOwn(name, parent_total) ==
    /\ class_map' = [class_map EXCEPT ![name].base_index = parent_total]
    /\ resolved' = Put(resolved, name,
                       own_slots(class_map[name].own_functions))
    /\ ret' = own_slots(class_map[name].own_functions)
    /\ stack' = Pop
    /\ pc' = pc
    /\ base_writes' = Bump(base_writes, name)

\* Lines 324-336: the rest of resolve(name) once parent_total is known.
Finish(name, parent_total) ==
    /\ class_map' = [class_map EXCEPT ![name].base_index = parent_total]
    /\ resolved' = Put(resolved, name,
                       parent_total + own_slots(class_map[name].own_functions))
    /\ ret' = parent_total + own_slots(class_map[name].own_functions)
    /\ stack' = Pop
    /\ pc' = pc
    /\ base_writes' = Bump(base_writes, name)

\* resolve(name) reading the parent's total from the memo table only: a
\* parent listed after its child counts as 0.
HasParentCallIfMemoized(name) ==
    /\ Truthy(class_map[name].parent_name)
    /\ class_map[name].parent_name \in DOMAIN resolved

\* resolve(name) not calling resolve for a parent whose call is still
\* active: a cycle check.
HasParentCallUnlessActive(name) ==
    /\ Truthy(class_map[name].parent_name)
    /\ \A q \in 1..Len(stack) : stack[q].name # class_map[name].parent_name

\* Lines 320-322: resolve(name) calls resolve(parent_name) when the class
\* has a parent.
HasParentCall(name) == Truthy(class_map[name].parent_name)

\* resolve(name) memoizing the 0 it returns for a name that is not in the
\* registry.
ReturnAbsentMemoized(name) ==
    /\ ret' = 0
    /\ resolved' = Put(resolved, name, 0)
    /\ stack' = Pop
    /\ UNCHANGED <<pc, class_map, base_writes>>

\* Lines 316-318: class_map.get(name) is None, resolve returns 0.
ReturnAbsent(name) ==
    /\ ret' = 0
    /\ stack' = Pop
    /\ UNCHANGED <<pc, class_map, resolved, base_writes>>

\* resolve(name) without its memo table.
MemoizedNever(name) == FALSE

\* Line 313: name in resolved.
Memoized(name) == name \in DOMAIN resolved

\* Lines 313-322: a call of resolve(name) up to its recursive call.
ResolveEnter ==
    /\ pc = "resolve"
    /\ stack # <<>>
    /\ Top.at = "enter"
    /\ LET name == Top.name
       IN  IF Memoized(name)
           THEN /\ ret' = resolved[name]
                /\ stack' = Pop
                /\ UNCHANGED <<pc, class_map, resolved, base_writes>>
           ELSE IF name \notin DOMAIN class_map
           THEN ReturnAbsent(name)
           ELSE IF HasParentCall(name)
           THEN IF Len(stack) < MaxDepth
                THEN /\ stack' = Append([stack EXCEPT ![Len(stack)].at = "wait"],
                                        [name |-> class_map[name].parent_name,
                                         at |-> "enter"])
                     /\ UNCHANGED <<pc, class_map, resolved, ret, base_writes>>
                ELSE /\ pc' = "RecursionError"
                     /\ UNCHANGED <<stack, class_map, resolved, ret,
                                    base_writes>>
           ELSE Finish(name, 0)
    /\ body_runs' = IF Memoized(Top.name) THEN body_runs
                    ELSE Bump(body_runs, Top.name)
    /\ UNCHANGED <<config, cursor, order, classes, svars>>

\* Lines 322-336: the recursive call has returned parent_total.
ResolveReturn ==
    /\ pc = "resolve"
    /\ stack # <<>>
    /\ Top.at = "wait"
    /\ Finish(Top.name, ret)
    /\ UNCHANGED <<config, cursor, order, classes, svars, body_runs>>

\* Line 305: the call of _format_output.
BeginEmit ==
    /\ pc = "resolve"
    /\ stack = <<>>
    /\ cursor > Len(order)
    /\ pc' = "emit"
    /\ cursor' = 1
    /\ UNCHANGED <<config, class_map, order, resolved, stack, ret, classes, svars,
                   body_runs, base_writes>>

\* The loop of _format_output leaving out the classes that own no
\* function.
EmitClassSkipsEmpty ==
    /\ pc = "emit"
    /\ cursor <= Len(order)
    /\ classes' = IF class_map[order[cursor]].own_functions = <<>> THEN classes
                  ELSE Put(classes, order[cursor],
                           format_class(class_map[order[cursor]]))
    /\ cursor' = cursor + 1
    /\ UNCHANGED <<config, pc, class_map, order, resolved, stack, ret, svars,
                   body_runs, base_writes>>

\* Lines 346-363: one iteration of the loop of _format_output.
EmitClass ==
    /\ pc = "emit"
    /\ cursor <= Len(order)
    /\ classes' = Put(classes, order[cursor], format_class(class_map[order[cursor]]))
    /\ cursor' = cursor + 1
    /\ UNCHANGED <<config, pc, class_map, order, resolved, stack, ret, svars,
                   body_runs, base_writes>>

\* Lines 365-369: _format_output returns.
EndEmit ==
    /\ pc = "emit"
    /\ cursor > Len(order)
    /\ pc' = "done"
    /\ UNCHANGED <<config, cursor, class_map, order, resolved, stack, ret,
                   classes, svars,
                   body_runs, base_writes>>

Next ==
    \/ ScanClass
    \/ BeginResolve
    \/ ResolveNext
    \/ ResolveEnter
    \/ ResolveReturn
    \/ BeginEmit
    \/ EmitClass
    \/ EndEmit

Spec == Init /\ [][Next]_vars

\* ------------------------------------------------------------------------
\* parse_header read line by line
\* ------------------------------------------------------------------------

\* The class whose header the scanner reads.
ClassName == "T"

\* The lines a header is made of.
Lines ==
    { <<"class", " ", "T", " ", "{">>,
      <<"class", " ", "T">>,
      <<"class", " ", "T", ";">>,
      <<"class", " ", "T", " ", ":", " ", "public", " ", "P", " ", "{">>,
      <<"class", " ", "O", " ", ":", " ", "public", " ", "T", " ", "{">>,
      <<"class", " ", "T", " ", "{", " ",
        "virtual", " ", "void", " ", "f", "(", ")", ";">>,
      <<"{">>,
      <<"}", ";">>,
      <<"int", " ", "x", ";">>,
      <<"virtual", " ", "void", " ", "f", "(", ")", ";">>,
      <<"virtual", " ", "void", " ", "g", "(", ")", " ", "override", ";">>,
      <<"virtual", " ", "~", "T", "(", ")", ";">>,
      <<"virtual", " ", "~", "T", "(", ")", " ", "override", ";">>,
      <<"virtual", " ", "void", " ", "h", "(", ")", ";", " ",
        "virtual", " ", "void", " ", "k", "(", ")", ";">>,
      <<"virtual", " ", "void">>,
      <<"m", "(">>,
      <<")", ";">>,
      <<"override", ";">>,
      <<"virtual", " ", "void", " ", "u", "(", ")">>,
      <<"virtual", " ", "void", " ", "n", "(", ")", " ", "{", " ", "}">>,
      <<"virtual", " ", "void", " ", "*", "p", "(", ")", ";">>,
      <<"virtual", " ", "(", ")", ";">>,
      <<"virtual", " ", "~", "(", ")", ";">>,
      <<"#", "if", " ", "WITH_EDITOR">>,
      <<"#", "ifdef", " ", "WITH_EDITORONLY_DATA">>,
      <<"#", "if", " ", "defined", "(", "WITH_EDITOR_ONLY_DATA", ")">>,
      <<"#", "if", " ", "X">>,
      <<"#", "if", " ", "X", " ", "&&", " ", "WITH_EDITOR">>,
      <<"#", "else">>,
      <<"#", "elif", " ", "X">>,
      <<"#", "elif", " ", "WITH_EDITOR">>,
      <<"#", "endif">> }

\* The longest header read.
MaxLines == 4

PipelineIdle ==
    /\ config = <<>>
    /\ pc = "parse_header"
    /\ cursor = 0
    /\ class_map = EmptyDict
    /\ order = <<>>
    /\ resolved = EmptyDict
    /\ stack = <<>>
    /\ ret = 0
    /\ classes = EmptyDict
    /\ body_runs = EmptyDict
    /\ base_writes = EmptyDict

InitScan ==
    /\ PipelineIdle
    /\ ScanIdle

\* Lines 205-273: the loop of parse_header reads the next line of the file.
ReadLine ==
    /\ line_no < MaxLines
    /\ \E l \in Lines :
          /\ raw_line' = l
          /\ scan' = ScanLine(scan, line_no + 1, l, ClassName)
          /\ ref' = RefStep(ref, l, ClassName)
    /\ line_no' = line_no + 1
    /\ UNCHANGED <<pvars, split>>

NextScan == ReadLine

SpecScan == InitScan /\ [][NextScan]_vars

\* ------------------------------------------------------------------------
\* parse_header on one declaration written on three lines and on one line
\* ------------------------------------------------------------------------

\* Declarations of the class body, each ending in its terminator.
Declarations ==
    { <<"virtual", " ", "void", " ", "f", "(", ")", ";">>,
      <<"virtual", " ", "~", "T", "(", ")", ";">>,
      <<"virtual", " ", "void", " ", "g", "(", ")", " ", "override", ";">>,
      <<"virtual", " ", "~", "T", "(", ")", " ", "override", ";">>,
      <<"virtual", " ", "int", "*", " ", "p", "(", ")", " ", "const", ";">>,
      <<"virtual", " ", "int", " ", "*", "p", "(", ")", ";">>,
      <<"virtual", " ", "int", "*", "p", "(", ")", ";">>,
      <<"virtual", " ", "void", " ", "h", "(", "int", " ", "x", " ", "=", " ",
        "{", "}", ",", " ", "int", " ", "k", ")", " ", "override", ";">>,
      <<"API", " ", "virtual", " ", "void", " ", "f", "(", ")", ";">> }

\* A line break may follow token i of decl: it replaces the whitespace at
\* i or falls next to whitespace or punctuation, never between two words.
BreakAfter(decl, i) ==
    \/ decl[i] \notin WordTokens
    \/ decl[i + 1] \notin WordTokens

\* The declarations with two line breaks, the later one before the
\* terminator at the latest, and no line of the one-line file read yet.
Splits ==
    UNION {{[decl |-> d, cuts |-> <<i, j>>, one |-> ScanInit, one_no |-> 0] :
                i \in {a \in 1..(Len(d) - 1) : BreakAfter(d, a)},
                j \in {b \in 1..(Len(d) - 1) : BreakAfter(d, b)}} :
           d \in Declarations}

ClassOpens == <<"class", " ", "T", " ", "{">>

\* The header with the declaration on lines 2 to 4.
SplitFile(sp) ==
    <<ClassOpens,
      SubSeq(sp.decl, 1, sp.cuts[1]),
      SubSeq(sp.decl, sp.cuts[1] + 1, sp.cuts[2]),
      SubSeq(sp.decl, sp.cuts[2] + 1, Len(sp.decl))>>

\* The header with the declaration on line 2.
JoinedFile(sp) == <<ClassOpens, sp.decl>>

InitSplit ==
    /\ PipelineIdle
    /\ scan = ScanInit
    /\ line_no = 0
    /\ raw_line = <<>>
    /\ ref = RefInit
    /\ split \in {sp \in Splits :
                    /\ sp.cuts[1] < sp.cuts[2]
                    /\ \A q \in 2..4 : Strip(SplitFile(sp)[q]) # <<>>}

\* Lines 205-273: parse_header reads the next line of the three-line file.
ReadSplitLine ==
    /\ line_no < Len(SplitFile(split))
    /\ LET l == SplitFile(split)[line_no + 1]
       IN  /\ raw_line' = l
           /\ scan' = ScanLine(scan, line_no + 1, l, ClassName)
           /\ ref' = RefStep(ref, l, ClassName)
    /\ line_no' = line_no + 1
    /\ UNCHANGED <<pvars, split>>

\* Lines 205-273: parse_header reads the next line of the one-line file.
ReadJoinedLine ==
    /\ split.one_no < Len(JoinedFile(split))
    /\ split' = [split EXCEPT
                    !.one = ScanLine(@, split.one_no + 1,
                                     JoinedFile(split)[split.one_no + 1],
                                     ClassName),
                    !.one_no = @ + 1]
    /\ UNCHANGED <<pvars, scan, line_no, raw_line, ref>>

NextSplit ==
    \/ ReadSplitLine
    \/ ReadJoinedLine

SpecSplit == InitSplit /\ [][NextSplit]_vars

\* ------------------------------------------------------------------------
\* parse_header over headers that leave the class and open it again
\* (specification SpecReentry)
\* ------------------------------------------------------------------------

\* The lines of such headers: two lines that match class_pattern for class
\* T, a declaration without terminator, the end of a class, a member and a
\* one-line declaration.
ReentryLines ==
    { <<"class", " ", "T", " ", "{">>,
      <<"class", " ", "O", " ", ":", " ", "public", " ", "T", " ", "{">>,
      <<"virtual", " ", "void", " ", "u", "(", ")">>,
      <<"}", ";">>,
      <<"int", " ", "x", ";">>,
      <<"virtual", " ", "void", " ", "f", "(", ")", ";">> }

\* The longest such header read.
MaxReentryLines == 5

\* Lines 205-273: parse_header reads the next line.
ReadReentryLine ==
    /\ line_no < MaxReentryLines
    /\ \E l \in ReentryLines :
          /\ raw_line' = l
          /\ scan' = ScanLine(scan, line_no + 1, l, ClassName)
          /\ ref' = RefStep(ref, l, ClassName)
    /\ line_no' = line_no + 1
    /\ UNCHANGED <<pvars, split>>

NextReentry == ReadReentryLine

SpecReentry == InitScan /\ [][NextReentry]_vars

\* ------------------------------------------------------------------------
\* Properties of the resolver and the emitter (specification Spec)
\* ------------------------------------------------------------------------

\* The width of a slot and of a list of slots, as section 3 of the
\* specification defines them.
Width(func) == IF func.is_destructor THEN 2 ELSE 1

RECURSIVE OwnWidth(_)
OwnWidth(funcs) ==
    IF funcs = <<>> THEN 0 ELSE Width(Head(funcs)) + OwnWidth(Tail(funcs))

Finished == pc = "done"

Registered(c) == c \in DOMAIN class_map
Emitted(c) == c \in DOMAIN classes

HasDestructor(funcs) == \E q \in 1..Len(funcs) : funcs[q].is_destructor

\* C1: once build_vtable_db has finished, every class C whose parent P is
\* in the registry has base_index(C) = base_index(P) + own_width(P) and
\* total_slots(C) = total_slots(P) + own_width(C).
C1_ChildFollowsParent ==
    Finished =>
        \A c \in DOMAIN class_map :
            LET parent == class_map[c].parent_name
            IN  Registered(parent) =>
                  /\ Emitted(c) /\ Emitted(parent)
                  /\ class_map[c].base_index =
                        class_map[parent].base_index
                        + OwnWidth(class_map[parent].own_functions)
                  /\ classes[c].base_index =
                        classes[parent].base_index
                        + OwnWidth(class_map[parent].own_functions)
                  /\ classes[c].total_slots =
                        classes[parent].total_slots
                        + OwnWidth(class_map[c].own_functions)

\* A finished run with a grandchild whose parent declares a destructor and
\* whose grandparent declares functions.
C1_Witness ==
    /\ Finished
    /\ \E c \in DOMAIN class_map :
          LET parent == class_map[c].parent_name
          IN  /\ Registered(parent)
              /\ Registered(class_map[parent].parent_name)
              /\ HasDestructor(class_map[parent].own_functions)
              /\ class_map[c].own_functions # <<>>
              /\ class_map[parent].base_index > 0

\* What the configuration says of a class, whatever its place in the list.
Configured == {config[q][1] : q \in DOMAIN config}
EntryOf(c) == config[CHOOSE q \in DOMAIN config : config[q][1] = c]
ParentOf(c) == EntryOf(c)[2]

\* The header found for each configured class.
HeaderOf == [c \in Configured |-> EntryOf(c)[3]]

\* The class n parent links above c (c itself for n = 0), None when the
\* chain has left the configured classes.
RECURSIVE Up(_, _)
Up(c, n) ==
    IF c \notin Configured THEN None
    ELSE IF n = 0 THEN c
    ELSE Up(ParentOf(c), n - 1)

\* No configured class is its own ancestor.
Acyclic ==
    \A c \in Configured : Up(c, Cardinality(Configured)) = None

\* The layout section 4.3 defines, computed along the parent chain of a
\* class from the set of configured classes and the headers hk alone:
\* nothing here depends on the order of the configuration list.
RECURSIVE ChainTotal(_, _)
ChainTotal(hk, c) ==
    IF c \notin Configured THEN 0
    ELSE (IF ParentOf(c) = None THEN 0 ELSE ChainTotal(hk, ParentOf(c)))
         + OwnWidth(parse_header(hk[c], c))

ChainBase(hk, c) ==
    IF ParentOf(c) = None THEN 0 ELSE ChainTotal(hk, ParentOf(c))

ChainFunctions(hk, c) ==
    LET own == parse_header(hk[c], c)
    IN  [q \in 1..Len(own) |->
            <<ChainBase(hk, c) + OwnWidth(SubSeq(own, 1, q - 1)),
              own[q].name, own[q].is_destructor>>]

\* C2: when build_vtable_db has finished (the parent links are acyclic),
\* the resolved base_index and total_slots of every class are those the
\* set of configured classes determines, for every order in which the
\* configuration lists them (every order is an initial state).
C2_OrderIndependent ==
    (Finished /\ Acyclic) =>
        \A c \in Configured :
            /\ Emitted(c)
            /\ classes[c].base_index = ChainBase(HeaderOf, c)
            /\ classes[c].total_slots = ChainTotal(HeaderOf, c)

\* A finished run whose configuration lists a child before its parent and
\* that parent before its own parent.
C2_Witness ==
    /\ Finished
    /\ Len(config) = 3
    /\ config[1][2] = config[2][1]
    /\ config[2][2] = config[3][1]
    /\ classes[config[1][1]].base_index > classes[config[2][1]].base_index
    /\ classes[config[2][1]].base_index > 0

\* C3: in every emitted functions list the first entry is at base_index,
\* the entry after a destructor at index i is at i + 2 and the entry after
\* any other function at i + 1; total_slots is the index after the last.
C3_SlotSpans ==
    \A c \in DOMAIN classes :
        LET fs == classes[c].functions
        IN  /\ fs # <<>> => fs[1][1] = classes[c].base_index
            /\ \A q \in 1..(Len(fs) - 1) :
                  fs[q + 1][1] = fs[q][1] + (IF fs[q][3] THEN 2 ELSE 1)
            /\ fs # <<>> =>
                  classes[c].total_slots =
                      fs[Len(fs)][1] + (IF fs[Len(fs)][3] THEN 2 ELSE 1)

\* An emitted class, not at index 0, whose destructor is followed by
\* another function.
C3_Witness ==
    \E c \in DOMAIN classes :
        LET fs == classes[c].functions
        IN  /\ Len(fs) >= 2
            /\ fs[1][3]
            /\ ~fs[2][3]
            /\ classes[c].base_index > 0

\* The scenario of section 8: Root, Mid : Root, Leaf : Mid.
Scenario ==
    { <<"Root", None, "scenario">>,
      <<"Mid", "Root", "scenario">>,
      <<"Leaf", "Mid", "scenario">> }

IsScenario == Len(config) = 3 /\ {config[q] : q \in DOMAIN config} = Scenario

\* C8: the scenario resolves to Root 0/2, Mid 2/5 with functions
\* (2, funcC, false), (3, ~Mid, true), Leaf 5/5, in every order of the three
\* classes.
C8_Scenario ==
    (Finished /\ IsScenario) =>
        /\ classes["Root"].base_index = 0
        /\ classes["Root"].total_slots = 2
        /\ classes["Mid"].base_index = 2
        /\ classes["Mid"].functions =
              << <<2, <<"funcC">>, FALSE>>, <<3, <<"~", "Mid">>, TRUE>> >>
        /\ classes["Mid"].total_slots = 5
        /\ classes["Leaf"].base_index = 5
        /\ classes["Leaf"].total_slots = 5

\* The scenario, finished, with Leaf listed first and Root last.
C8_Witness ==
    /\ Finished
    /\ IsScenario
    /\ config[1][1] = "Leaf"
    /\ config[3][1] = "Root"

\* C9: once resolution is over, every class without configured parent has
\* base_index 0, in the registry and in the emitted record.
C9_RootsAtZero ==
    \A c \in DOMAIN class_map :
        (pc \in {"emit", "done"} /\ class_map[c].parent_name = None) =>
            /\ class_map[c].base_index = 0
            /\ Emitted(c) => classes[c].base_index = 0

\* A finished run with two roots that declare functions, one of them the
\* parent of a third class.
C9_Witness ==
    /\ Finished
    /\ \E a \in DOMAIN class_map, b \in DOMAIN class_map, c \in DOMAIN class_map :
          /\ a # b
          /\ class_map[a].parent_name = None
          /\ class_map[b].parent_name = None
          /\ class_map[a].own_functions # <<>>
          /\ class_map[b].own_functions # <<>>
          /\ class_map[c].parent_name = a
          /\ classes[a].total_slots > 0

\* The classes on the parent chain of c (c itself excluded), read from the
\* configuration.
RECURSIVE Ancestors(_)
Ancestors(c) ==
    IF c \notin Configured \/ ParentOf(c) = None THEN {}
    ELSE {ParentOf(c)} \cup Ancestors(ParentOf(c))

\* The emitted record of c is what the layout with the headers hk gives.
SameAsWith(hk, c) ==
    /\ Emitted(c)
    /\ classes[c].base_index = ChainBase(hk, c)
    /\ classes[c].total_slots = ChainTotal(hk, c)
    /\ classes[c].functions = ChainFunctions(hk, c)

\* The headers of the run, with the header of m present as file kind.
WithHeader(m, kind) == [HeaderOf EXCEPT ![m] = kind]

\* C10 as claimed: with the header of class m missing, every other class
\* gets the base_index, total_slots and functions it gets with that header
\* present.
C10_MissingChangesNoOther ==
    (Finished /\ Acyclic) =>
        \A m \in Configured :
            HeaderOf[m] = "missing" =>
                \A kind \in HeaderKinds \ {"missing"} :
                    \A c \in Configured \ {m} : SameAsWith(WithHeader(m, kind), c)

\* C10 as amended: the same for every other class that does not descend
\* from m.
C10_MissingChangesNoUnrelated ==
    (Finished /\ Acyclic) =>
        \A m \in Configured :
            HeaderOf[m] = "missing" =>
                \A kind \in HeaderKinds \ {"missing"} :
                    \A c \in Configured \ {m} :
                        m \notin Ancestors(c) => SameAsWith(WithHeader(m, kind), c)

\* A finished run in which the first class has no header and a later class
\* that does not descend from it has a parent with functions.
C10_Witness ==
    /\ Finished
    /\ Len(config) = 3
    /\ config[1][3] = "missing"
    /\ config[1][1] \notin Ancestors(config[3][1])
    /\ config[3][2] = config[2][1]
    /\ classes[config[3][1]].base_index > 0
    /\ classes[config[3][1]].functions # <<>>

\* ------------------------------------------------------------------------
\* Missing headers and unknown parents (specification Spec)
\* ------------------------------------------------------------------------

\* The classes the loop over CLASS_DEFINITIONS has passed.
Scanned == {config[q][1] : q \in 1..(cursor - 1)}

\* C11: every iteration of the loop over CLASS_DEFINITIONS registers its
\* class, with or without header, so that the registry holds every
\* configured class when the loop ends; the output of build_vtable_db has
\* an entry for every configured class, and the entry of a class whose
\* header is missing has own_count = 0 and no functions.
C11_EveryClassEmitted ==
    /\ pc = "scan" => DOMAIN class_map = Scanned
    /\ pc # "scan" => DOMAIN class_map = Configured
    /\ Finished =>
          /\ DOMAIN classes = Configured
          /\ \A c \in Configured :
                HeaderOf[c] = "missing" =>
                    /\ classes[c].own_count = 0
                    /\ classes[c].functions = <<>>

\* A finished run whose first class has no header and whose last class
\* has functions.
C11_Witness ==
    /\ Finished
    /\ Len(config) = 3
    /\ config[1][3] = "missing"
    /\ config[1][1] \in DOMAIN classes
    /\ classes[config[3][1]].functions # <<>>

\* The innermost call of resolve is at its first line, for a name that is
\* not in the registry.
EntersAbsent ==
    /\ pc = "resolve"
    /\ stack # <<>>
    /\ Top.at = "enter"
    /\ Top.name \notin DOMAIN class_map

\* C12: the keys of the memo table are always registry names; a call of
\* resolve for a name that is not in the registry returns 0 and leaves the
\* memo table and the registry as they are; in a finished run a class whose
\* configured parent is not in the registry has base_index 0 and
\* total_slots equal to its own width.
C12_AbsentNameIsZero ==
    /\ [](DOMAIN resolved \subseteq DOMAIN class_map)
    /\ [][EntersAbsent =>
            /\ ret' = 0
            /\ resolved' = resolved
            /\ class_map' = class_map
            /\ stack' = Pop]_vars
    /\ [](Finished =>
            \A c \in DOMAIN class_map :
                (Truthy(class_map[c].parent_name)
                 /\ ~Registered(class_map[c].parent_name)) =>
                    /\ class_map[c].base_index = 0
                    /\ classes[c].base_index = 0
                    /\ classes[c].total_slots =
                          OwnWidth(class_map[c].own_functions))

\* A finished run in which a class with a destructor names a parent that
\* no configuration entry defines, and has a child of its own.
C12_Witness ==
    /\ Finished
    /\ \E c \in DOMAIN class_map, d \in DOMAIN class_map :
          /\ Truthy(class_map[c].parent_name)
          /\ ~Registered(class_map[c].parent_name)
          /\ HasDestructor(class_map[c].own_functions)
          /\ class_map[d].parent_name = c
          /\ classes[d].base_index > 0

\* C15: the total_slots emitted for a class, which is the index the walk
\* of _format_output ends at, is base_index plus the width of the class's
\* own functions, and is the total that resolve memoized for the class.
C15_EmittedTotalIsMemo ==
    \A c \in DOMAIN classes :
        /\ c \in DOMAIN resolved
        /\ classes[c].total_slots =
              classes[c].base_index + OwnWidth(class_map[c].own_functions)
        /\ classes[c].total_slots = resolved[c]

\* A class with a destructor and a non-zero base has been emitted.
C15_Witness ==
    \E c \in DOMAIN classes :
        /\ HasDestructor(class_map[c].own_functions)
        /\ classes[c].base_index > 0
        /\ resolved[c] > classes[c].base_index + classes[c].own_count

\* ------------------------------------------------------------------------
\* Cyclic and acyclic parent links (specification Spec)
\* ------------------------------------------------------------------------

\* Following the configured parent links from c leads back to c.
OnCycle(c) ==
    \E n \in 1..Cardinality(Configured) : Up(c, n) = c

\* A call of resolve for a class on a cycle is active.
CycleActive ==
    \E q \in 1..Len(stack) : OnCycle(stack[q].name)

\* C16: with a cycle in the configured parent links (a class that is its
\* own parent included), no class on the cycle is ever memoized and the
\* run never reaches the emitter; once resolve has been called for a
\* class on the cycle no call ever returns, every step enters resolve one
\* level deeper, and when the interpreter gives up (RecursionError) the
\* stack is MaxDepth deep and holds two calls for the same unmemoized class.
C16_CycleRecursesForever ==
    /\ [](\A c \in Configured : OnCycle(c) => c \notin DOMAIN resolved)
    /\ []((\E c \in Configured : OnCycle(c)) => pc \notin {"emit", "done"})
    /\ [][CycleActive =>
            \/ /\ Len(stack') = Len(stack) + 1
               /\ SubSeq(stack', 1, Len(stack) - 1) = Pop
               /\ resolved' = resolved
            \/ /\ Len(stack) = MaxDepth
               /\ pc' = "RecursionError"]_vars
    /\ [](pc = "RecursionError" =>
            /\ Len(stack) = MaxDepth
            /\ \E q \in 1..Len(stack), r \in 1..Len(stack) :
                  /\ q < r
                  /\ stack[q].name = stack[r].name
                  /\ OnCycle(stack[q].name)
                  /\ stack[q].name \notin DOMAIN resolved)

\* The interpreter has given up on a class configured as its own parent,
\* after a class outside the cycle was memoized.
C16_Witness ==
    /\ pc = "RecursionError"
    /\ resolved # EmptyDict
    /\ \E c \in Configured : ParentOf(c) = c /\ Top.name = c

\* The interpreter has given up on a cycle through two classes.
C16_WitnessTwo ==
    /\ pc = "RecursionError"
    /\ \E c \in Configured :
          /\ ParentOf(c) # c
          /\ ParentOf(c) \in Configured
          /\ ParentOf(ParentOf(c)) = c
          /\ Top.name = c

\* The loop of _assign_base_indices has ended.
ResolutionEnded == pc \in {"emit", "done"}

\* The number of times resolve(c) ran past its memo check.
BodyRuns(c) == IF c \in DOMAIN body_runs THEN body_runs[c] ELSE 0

\* The active calls of resolve that wait for the call they made.
Waiting == {q \in 1..Len(stack) : stack[q].at = "wait"}

\* What is left of _assign_base_indices to do: the names the loop has not
\* reached, the classes without memo entry (less the calls that have
\* passed their body's first half), and the call that has just begun.
Variant ==
    4 * (Len(order) + 1 - cursor)
    + 2 * Cardinality(DOMAIN class_map \ DOMAIN resolved)
    - Cardinality(Waiting)
    + 2 * (Len(stack) - Cardinality(Waiting))

Resolving == Acyclic /\ pc = "resolve"

\* C17: with acyclic parent links _assign_base_indices terminates: it
\* raises no RecursionError, while it runs it always has a next step, and
\* every step lowers Variant, which is never negative.  When it has ended every registry class has a memo
\* entry and the body of resolve past the memo check has run exactly once
\* for it; at no time has it run twice for a registry class.
C17_AcyclicTerminates ==
    /\ [](Acyclic => pc # "RecursionError")
    /\ [](Resolving => (ENABLED Next /\ Variant >= 0))
    /\ [][(Resolving /\ pc' = "resolve") => Variant' < Variant]_vars
    /\ [](Acyclic =>
            \A c \in DOMAIN class_map :
                /\ BodyRuns(c) <= 1
                /\ ResolutionEnded =>
                      /\ c \in DOMAIN resolved
                      /\ BodyRuns(c) = 1)

\* Resolution has ended for three classes of which the one listed first
\* is the child of the one listed last and two share a parent outside the
\* registry.
C17_Witness ==
    /\ ResolutionEnded
    /\ Len(config) = 3
    /\ config[1][2] = config[3][1]
    /\ config[2][2] = "Ext"
    /\ config[3][2] = "Ext"
    /\ BodyRuns("Ext") = 2
    /\ \A c \in Configured : BodyRuns(c) = 1

\* The number of assignments to base_index of class c.
BaseWrites(c) == IF c \in DOMAIN base_writes THEN base_writes[c] ELSE 0

\* C18: base_index of a registry class is never assigned twice, and has
\* been assigned exactly once when resolution has ended (which it does
\* when the parent links are acyclic), whatever the order of the classes;
\* a step of _assign_base_indices leaves the registry keys and the
\* class_name, parent_name and own_functions of every class as they are,
\* and changes the base_index of no class but the one it assigns.
C18_BaseIndexWrittenOnce ==
    /\ [](\A c \in DOMAIN class_map :
            /\ BaseWrites(c) <= 1
            /\ ResolutionEnded => BaseWrites(c) = 1)
    /\ [][pc = "resolve" =>
            /\ DOMAIN class_map' = DOMAIN class_map
            /\ \A c \in DOMAIN class_map :
                  /\ class_map'[c].class_name = class_map[c].class_name
                  /\ class_map'[c].parent_name = class_map[c].parent_name
                  /\ class_map'[c].own_functions = class_map[c].own_functions
                  /\ BaseWrites(c)' = BaseWrites(c) =>
                        class_map'[c].base_index = class_map[c].base_index]_vars

\* Resolution has ended for a child listed before its parent, both with
\* functions.
C18_Witness ==
    /\ ResolutionEnded
    /\ Len(config) >= 2
    /\ config[1][2] = config[2][1]
    /\ class_map[config[1][1]].base_index > 0
    /\ class_map[config[1][1]].own_functions # <<>>
    /\ \A c \in DOMAIN class_map : BaseWrites(c) = 1

\* ------------------------------------------------------------------------
\* The parent recorded for a class
\* ------------------------------------------------------------------------

\* The classes whose header opens the class with a `: public <Parent>`
\* clause.
DeclaresParent(c) == HeaderParent(c, HeaderOf[c]) # None

\* C24 as claimed: the parent recorded for a registered class whose header
\* opens the class with a `: public <Parent>` clause is the parent named
\* in the header.
C24_ParentFromHeader ==
    \A c \in DOMAIN class_map :
        DeclaresParent(c)
            => class_map[c].parent_name = HeaderParent(c, HeaderOf[c])

\* C24, amended: the parent recorded for a registered class is the parent of
\* its configuration entry, whatever the header declares, and the output
\* carries that parent; the result of the scan is the list of functions
\* alone.
C24_ParentFromConfiguration ==
    /\ \A c \in DOMAIN class_map :
          /\ class_map[c].parent_name = ParentOf(c)
          /\ class_map[c].own_functions = parse_header(HeaderOf[c], c)
    /\ \A c \in DOMAIN classes : classes[c].parent = ParentOf(c)

\* Mid has been scanned from a header that declares `: public Root` and
\* lists its functions, is configured without parent, and is emitted as a
\* root.
C24_Witness ==
    /\ pc = "done"
    /\ Registered("Mid")
    /\ HeaderParent("Mid", HeaderOf["Mid"]) = "Root"
    /\ Registered("Root")
    /\ ParentOf("Mid") = None
    /\ class_map["Mid"].parent_name = None
    /\ class_map["Mid"].own_functions # <<>>
    /\ classes["Mid"].parent = None
    /\ classes["Mid"].base_index = 0

\* ------------------------------------------------------------------------
\* Scanning before resolution
\* ------------------------------------------------------------------------

\* The loop over CLASS_DEFINITIONS has not ended.
Scanning == pc = "scan"

\* resolve has not been called and base_index has not been assigned.
ResolverUntouched ==
    /\ stack = <<>>
    /\ resolved = EmptyDict
    /\ body_runs = EmptyDict
    /\ base_writes = EmptyDict
    /\ \A c \in DOMAIN class_map : class_map[c].base_index = 0

\* Every configured class is in the registry with the functions of its
\* scan.
AllRegistered ==
    /\ DOMAIN class_map = Configured
    /\ \A c \in Configured :
          class_map[c].own_functions = parse_header(HeaderOf[c], c)

\* C26: while build_vtable_db scans, resolve is not called and no
\* base_index is assigned; when the scan loop has ended every configured
\* class is in the registry; from then on no step adds a registry entry or
\* changes the class_name, parent_name or own_functions of one.
C26_ScanBeforeResolve ==
    /\ [](Scanning => ResolverUntouched)
    /\ [](~Scanning => AllRegistered)
    /\ [][~Scanning =>
            /\ DOMAIN class_map' = DOMAIN class_map
            /\ \A c \in DOMAIN class_map :
                  /\ class_map'[c].class_name = class_map[c].class_name
                  /\ class_map'[c].parent_name = class_map[c].parent_name
                  /\ class_map'[c].own_functions
                        = class_map[c].own_functions]_vars
    /\ [][Scanning' => (stack' = <<>> /\ base_writes' = base_writes)]_vars

\* Resolution is under way for three registered classes: base_index has
\* been assigned for one of them and not yet for another, and resolve is
\* active.
C26_Witness ==
    /\ pc = "resolve"
    /\ Len(config) = 3
    /\ AllRegistered
    /\ stack # <<>>
    /\ \E c \in Configured : BaseWrites(c) = 1 /\ class_map[c].base_index > 0
    /\ \E c \in Configured : BaseWrites(c) = 0

\* ------------------------------------------------------------------------
\* The slots along one inheritance chain
\* ------------------------------------------------------------------------

\* The class and its ancestors.
Chain(c) == {c} \cup Ancestors(c)

\* The parent links above c end at a class without parent and never leave
\* the registry.
ChainInRegistry(c) ==
    /\ Acyclic
    /\ \A a \in Chain(c) : Registered(a)

\* The emitted functions of the classes of the chain of c, each as
\* <<class, position>>.
ChainSlots(c) ==
    UNION {{<<a, q>> : q \in 1..Len(classes[a].functions)} : a \in Chain(c)}

\* The indices [index, index + width) that an emitted function occupies.
Interval(s) ==
    LET f == classes[s[1]].functions[s[2]]
    IN  f[1]..(f[1] + (IF f[3] THEN 2 ELSE 1) - 1)

\* C27: once build_vtable_db has finished, for every class whose whole
\* ancestor chain is in the registry, the index intervals of its own
\* functions and of the own functions of all its ancestors are pairwise
\* disjoint and cover exactly 0 .. total_slots - 1.
C27_ChainIntervalsPartition ==
    Finished =>
        \A c \in DOMAIN class_map :
            ChainInRegistry(c) =>
                /\ \A a \in Chain(c) : Emitted(a)
                /\ \A s \in ChainSlots(c), t \in ChainSlots(c) :
                      s # t => Interval(s) \cap Interval(t) = {}
                /\ UNION {Interval(s) : s \in ChainSlots(c)}
                      = 0..(classes[c].total_slots - 1)

\* A finished run with a class, its parent and its grandparent, all in the
\* registry and all declaring functions, a destructor among those of the
\* class and among those of its parent.
C27_Witness ==
    /\ Finished
    /\ \E c \in DOMAIN class_map :
          /\ ChainInRegistry(c)
          /\ Cardinality(Chain(c)) = 3
          /\ \A a \in Chain(c) : classes[a].functions # <<>>
          /\ HasDestructor(class_map[c].own_functions)
          /\ HasDestructor(class_map[ParentOf(c)].own_functions)
          /\ classes[c].total_slots = 8

\* ------------------------------------------------------------------------
\* Properties of the scanner and the classifier (specification SpecScan)
\* ------------------------------------------------------------------------

Names(results) == [q \in 1..Len(results) |-> results[q].name]

\* a is b with some entries left out.
RECURSIVE IsSubseq(_, _)
IsSubseq(a, b) ==
    IF a = <<>> THEN TRUE
    ELSE IF b = <<>> THEN FALSE
    ELSE IF Head(a) = Head(b) THEN IsSubseq(Tail(a), Tail(b))
    ELSE IsSubseq(a, Tail(b))

\* C4: a line that completes a declaration containing `override` adds no
\* entry to own_functions and no slot to the class, a destructor declared
\* with `override` included.
C4_OverrideAddsNothing ==
    [][(scan'.handed # <<>> /\ Contains(scan'.handed, "override"))
          => /\ scan'.results = scan.results
             /\ OwnWidth(scan'.results) = OwnWidth(scan.results)]_vars

\* The scanner has just completed a destructor declared with `override`,
\* in a class that already has a function.
C4_Witness ==
    /\ scan.handed # <<>>
    /\ Contains(scan.handed, "override")
    /\ DestructorMatches(scan.handed) # {}
    /\ scan.in_class
    /\ scan.results # <<>>

\* C5 as claimed: the non-override virtual declarations written in the
\* body of the target class outside every editor-only block are all in
\* own_functions, in source order.
C5_EveryBodyDeclarationListed ==
    IsSubseq(ref.expected, Names(scan.results))

\* C6 as claimed: no entry of own_functions starts on a line of the class
\* body that lies in a block opened by a conditional naming an editor-only
\* macro.
C6_GuardedNeverListed ==
    \A q \in 1..Len(scan.results) :
        scan.results[q].line_number \notin ref.guarded

\* C7 as claimed: no entry of own_functions starts on a line outside the
\* brace scope opened by the definition of the target class.
C7_OutsideNeverListed ==
    \A q \in 1..Len(scan.results) :
        scan.results[q].line_number \notin ref.outside

\* The declaration holds no identifier: its only word is `virtual`.
NoIdentifier(decl) ==
    \A i \in 1..Len(decl) : decl[i] \in WordTokens => decl[i] = "virtual"

\* C14 as claimed: a line that completes a declaration containing `virtual`
\* and no `override` appends exactly one slot to own_functions, and when
\* the declaration holds no identifier at all the slot is named "unknown"
\* and is no destructor.
C14_OneSlotOrSentinel ==
    [][(/\ scan'.handed # <<>>
        /\ RE_VIRTUAL(scan'.handed)
        /\ ~RE_OVERRIDE(scan'.handed))
          => /\ Len(scan'.results) = Len(scan.results) + 1
             /\ SubSeq(scan'.results, 1, Len(scan.results)) = scan.results
             /\ NoIdentifier(scan'.handed) =>
                   LET slot == scan'.results[Len(scan'.results)]
                   IN  slot.name = <<"unknown">> /\ ~slot.is_destructor]_vars

\* The locals of parse_header.
Locals(st) == [st EXCEPT !.handed = <<>>, !.flipped = FALSE]

\* C19: after any sequence of lines, unbalanced ones included,
\* editor_depth is the number of True entries of pp_depth_stack and is not
\* negative; an #else or #endif read with an empty stack changes no local
\* of parse_header.
C19_DepthCountsTrueGuards ==
    /\ [](/\ scan.editor_depth = Count(scan.pp_depth_stack, TRUE)
          /\ scan.editor_depth >= 0)
    /\ [][(/\ scan.pp_depth_stack = <<>>
            /\ \/ IsElseDirective(Strip(raw_line'))
               \/ IsEndifDirective(Strip(raw_line')))
              => Locals(scan') = Locals(scan)]_vars

\* An #else has just flipped the inner of two editor-only guards.
C19_Witness ==
    /\ IsElseDirective(raw_line)
    /\ scan.pp_depth_stack = <<TRUE, FALSE>>
    /\ scan.editor_depth = 1
    /\ ref.guards = <<TRUE, FALSE>>

\* The innermost open conditional is flagged editor-only.
TopIsEditor(st) ==
    st.pp_depth_stack # <<>> /\ st.pp_depth_stack[Len(st.pp_depth_stack)]

\* The line is one complete virtual declaration.
CompleteDeclaration(line) ==
    /\ line # <<>> /\ line[1] = "virtual"
    /\ line[Len(line)] = ";"
    /\ Count(line, ";") = 1
    /\ ~Contains(line, "{") /\ ~Contains(line, "}")

\* The scanner is in the body of the class with no declaration pending.
InBodyIdle(st) ==
    st.in_class /\ st.class_brace_depth > 0 /\ st.accum = <<>>

\* C20: an #else read while the innermost open conditional is flagged
\* editor-only clears that flag and lowers editor_depth by one, and
\* changes no other local; an #else read at a level whose flag is false
\* (a level that an #else has already flipped included) or with no level
\* open changes nothing.  After an #else that cleared the flag of the
\* only editor-only level, a declaration on the next line of the class
\* body is handed to the classifier.
C20_ElseFlipsEditorGuard ==
    /\ [][IsElseDirective(Strip(raw_line')) =>
            IF TopIsEditor(scan)
            THEN Locals(scan') =
                   Locals([scan EXCEPT
                      !.editor_depth = @ - 1,
                      !.pp_depth_stack[Len(scan.pp_depth_stack)] = FALSE])
            ELSE Locals(scan') = Locals(scan)]_vars
    /\ [][(/\ scan.flipped
            /\ scan.editor_depth = 0
            /\ InBodyIdle(scan)
            /\ CompleteDeclaration(raw_line'))
              => scan'.handed = <<" ">> \o raw_line']_vars

\* In the class body, an #else has just cleared the flag of the only
\* editor-only level, and the header has a further line.
C20_Witness ==
    /\ scan.flipped
    /\ IsElseDirective(raw_line)
    /\ scan.pp_depth_stack = <<FALSE>>
    /\ scan.editor_depth = 0
    /\ InBodyIdle(scan)
    /\ line_no < MaxLines

\* The line starts with "#" once stripped (line 209).
IsDirectiveLine(raw) == Strip(raw) # <<>> /\ Strip(raw)[1] = "#"

\* The locals of parse_header that track the class scope, the pending
\* buffer and the results.
ScopeLocals(st) ==
    <<st.in_class, st.brace_depth, st.class_brace_depth, st.accum,
      st.accum_start_line, st.results>>

\* C21: a line that is no directive, read while editor_depth > 0, changes
\* no local of parse_header (its braces, class openings and `virtual`
\* keywords have no effect); a directive line, read in any state, leaves
\* in_class, brace_depth, class_brace_depth, the pending buffer and the
\* results unchanged.
C21_GuardedLinesDiscarded ==
    /\ [][(scan.editor_depth > 0 /\ ~IsDirectiveLine(raw_line'))
            => Locals(scan') = Locals(scan)]_vars
    /\ [][IsDirectiveLine(raw_line')
            => ScopeLocals(scan') = ScopeLocals(scan)]_vars

\* In the class body, inside an editor-only block, a line holding both a
\* `virtual` declaration and a brace has just been read, while a
\* declaration is pending.
C21_Witness ==
    /\ scan.editor_depth > 0
    /\ scan.in_class
    /\ scan.accum # <<>>
    /\ Contains(raw_line, "virtual")
    /\ Contains(raw_line, "{")
    /\ scan.results = <<>>

\* The condition of the directive holds the name of an editor-only macro,
\* at any position.
ConditionNamesEditorMacro(line) ==
    \E q \in 1..Len(line) : line[q] \in EDITOR_MACROS

\* C22 as claimed: a line that opens a conditional (#if, #ifdef, #ifndef)
\* pushes exactly one entry on pp_depth_stack, True when its condition holds
\* the name of an editor-only macro at any position, False otherwise.
C22_EditorMacroAnywhere ==
    [][IsIfDirective(Strip(raw_line'))
        => scan'.pp_depth_stack =
               Append(scan.pp_depth_stack,
                      ConditionNamesEditorMacro(Strip(raw_line')))]_vars

\* Every line that opens a conditional pushes exactly one entry, and
\* editor_depth rises by one exactly when the entry is True.
ConditionalOpenPushesOne ==
    [][IsIfDirective(Strip(raw_line'))
        => /\ Len(scan'.pp_depth_stack) = Len(scan.pp_depth_stack) + 1
           /\ SubSeq(scan'.pp_depth_stack, 1, Len(scan.pp_depth_stack))
                  = scan.pp_depth_stack
           /\ scan'.pp_depth_stack[Len(scan'.pp_depth_stack)]
                  = is_editor_ifdef(raw_line')]_vars

\* The step reads a line of the class body, outside every editor-only
\* block, that starts a pending buffer or continues one.
Accumulating ==
    /\ ~IsDirectiveLine(raw_line')
    /\ scan.editor_depth = 0
    /\ scan.in_class /\ scan'.in_class
    /\ (scan.accum # <<>> \/ RE_VIRTUAL(Strip(raw_line')))

\* The pending buffer with the line of the step appended after one space.
Appended == scan.accum \o <<" ">> \o Strip(raw_line')

\* The step hands the buffer to _process_declaration and resets it; the
\* call appends at most one slot, which starts on the starting line of the
\* buffer.
HandsOver ==
    /\ scan'.handed = Appended
    /\ scan'.accum = <<>>
    /\ \/ scan'.results = scan.results
       \/ /\ Len(scan'.results) = Len(scan.results) + 1
          /\ SubSeq(scan'.results, 1, Len(scan.results)) = scan.results
          /\ scan'.results[Len(scan'.results)].line_number
                 = scan'.accum_start_line

\* The step keeps the buffer pending, with the line appended, and calls
\* nothing.
StaysPending ==
    /\ scan'.accum = Appended
    /\ scan'.handed = <<>>
    /\ scan'.results = scan.results

\* The starting line of the buffer is the line that opened it.
StartLineKept ==
    scan'.accum_start_line =
        IF scan.accum = <<>> THEN line_no' ELSE scan.accum_start_line

\* C23 as claimed: the buffer is handed to the classifier and reset exactly
\* when it holds ";" or both "{" and "}"; otherwise it stays pending with
\* the line appended after a single space.
C23_CompleteOnTerminatorOrBracePair ==
    [][Accumulating =>
          IF \/ Contains(Appended, ";")
             \/ (Contains(Appended, "{") /\ Contains(Appended, "}"))
          THEN HandsOver
          ELSE StaysPending]_vars

\* C23, amended: the buffer is handed to the classifier and reset exactly
\* when it holds ";" or "{" (a closing brace is not needed); otherwise it
\* stays pending with the line appended after a single space, and its
\* starting line is the line that opened it.  No other step hands a
\* buffer over.
C23_CompleteOnTerminatorOrBrace ==
    /\ [][Accumulating =>
            /\ StartLineKept
            /\ IF Contains(Appended, ";") \/ Contains(Appended, "{")
               THEN HandsOver
               ELSE StaysPending]_vars
    /\ [][~Accumulating => /\ scan'.handed = <<>>
                           /\ scan'.results = scan.results]_vars

\* A declaration that was pending over more than one line has just been
\* handed over on reading an opening brace, with neither ";" nor "}" in it.
C23_Witness ==
    /\ scan.handed # <<>>
    /\ Contains(scan.handed, "{")
    /\ ~Contains(scan.handed, "}")
    /\ ~Contains(scan.handed, ";")
    /\ scan.accum = <<>>
    /\ scan.accum_start_line < line_no
    /\ Len(scan.results) = 1
    /\ scan.results[1].name = <<"u">>

\* The name of the slot starts with "~".
TildeName(slot) == slot.name # <<>> /\ Head(slot.name) = "~"

\* C28: every slot that the classifier appends has is_destructor true
\* exactly when its name starts with "~": the slots of the destructor
\* pattern, of the function-name pattern and of the whitespace-split
\* fallback, and the "unknown" sentinel.
C28_DestructorIffTilde ==
    \A q \in 1..Len(scan.results) :
        /\ scan.results[q].name # <<>>
        /\ scan.results[q].is_destructor <=> TildeName(scan.results[q])

\* Three slots are listed: a destructor found by the destructor pattern, a
\* slot named "~" by the fallback, and the sentinel.
C28_Witness ==
    /\ Len(scan.results) = 3
    /\ \E q \in 1..3 : /\ scan.results[q].name = <<"~", "T">>
                       /\ scan.results[q].is_destructor
    /\ \E q \in 1..3 : /\ scan.results[q].name = <<"~">>
                       /\ scan.results[q].is_destructor
    /\ \E q \in 1..3 : /\ scan.results[q].name = <<"unknown">>
                       /\ ~scan.results[q].is_destructor

\* The line last read is an #elif.
AfterElif == IsElifDirective(Strip(raw_line))

ElifInsideEditorBlock ==
    /\ AfterElif
    /\ scan.pp_depth_stack = <<TRUE>>
    /\ scan.editor_depth = 1
    /\ scan.in_class
    /\ line_no < MaxLines

\* ------------------------------------------------------------------------
\* Properties of a declaration written on three lines (specification
\* SpecSplit)
\* ------------------------------------------------------------------------

\* Both files have been read to the end.
BothRead ==
    /\ line_no = Len(SplitFile(split))
    /\ split.one_no = Len(JoinedFile(split))

\* C13 as claimed: a declaration written on three consecutive lines of the
\* class body, its terminator on the third, gives the slots the same
\* declaration gives on one line (same name, same is_destructor, or no
\* slot), recorded at the first of the three lines, which is the line of
\* the one-line declaration.
C13_SplitSameAsOneLine ==
    BothRead => scan.results = split.one.results

\* The position of the first "(" of decl, Len(decl) + 1 when it has none.
FirstParen(decl) ==
    Min({q \in 1..Len(decl) : decl[q] = "("} \cup {Len(decl) + 1})

\* The position of the last token before the first "(" that is no
\* whitespace, 0 when there is none.
BeforeFirstParen(decl) ==
    LET c  == FirstParen(decl)
        qs == {q \in 1..(c - 1) : decl[q] # " "}
    IN  IF qs = {} THEN 0 ELSE CHOOSE q \in qs : \A r \in qs : r <= q

\* An identifier immediately precedes the first "(" of decl.
IdentifierBeforeParen(decl) ==
    /\ FirstParen(decl) <= Len(decl)
    /\ BeforeFirstParen(decl) > 0
    /\ decl[BeforeFirstParen(decl)] \in WordTokens \ {"virtual"}

\* The declaration that the last step handed to _process_declaration, if
\* any, holds `virtual`, no `override`, does not match the destructor
\* pattern and has an identifier immediately before its first "(".
PlainFunctionHanded(st) ==
    /\ st.handed # <<>>
    /\ RE_VIRTUAL(st.handed)
    /\ ~RE_OVERRIDE(st.handed)
    /\ DestructorMatches(st.handed) = {}
    /\ IdentifierBeforeParen(st.handed)

\* The slot appended for the handed declaration is named by the identifier
\* before the first "(" and is no destructor.
NamedBeforeParen(st) ==
    PlainFunctionHanded(st)
        => /\ st.results # <<>>
           /\ st.results[Len(st.results)].name =
                  <<st.handed[BeforeFirstParen(st.handed)]>>
           /\ ~st.results[Len(st.results)].is_destructor

\* C25 as claimed: a completed declaration with `virtual`, without
\* `override`, that does not match the destructor pattern gets a slot
\* named by the identifier immediately before its first "(", pointer and
\* reference markers stripped, with is_destructor false, whether written
\* on one line or on three.
C25_NameIsIdentifierBeforeParen ==
    NamedBeforeParen(scan) /\ NamedBeforeParen(split.one)

\* The same for the declarations that parse_header hands over while it
\* reads a header line by line.
ScanNamedBeforeParen == NamedBeforeParen(scan)

\* The same for every declaration but the one whose pointer marker touches
\* both the return type and the name.
OthersNamedBeforeParen ==
    split.decl # <<"virtual", " ", "int", "*", "p", "(", ")", ";">>
        => NamedBeforeParen(scan) /\ NamedBeforeParen(split.one)

\* ------------------------------------------------------------------------
\* Properties of a buffer left pending (specification SpecReentry)
\* ------------------------------------------------------------------------

\* The slot that the step appends, if it appends one, starts on the line
\* that opened the buffer.
SlotKeepsStartLine ==
    Len(scan'.results) > Len(scan.results)
        => scan'.results[Len(scan'.results)].line_number
               = scan.accum_start_line

\* C30: a buffer that is pending has produced no slot, so that none is
\* listed for it when the input ends there; a step that leaves the class,
\* reads a line outside the class or enters the class again leaves the
\* buffer, its starting line and the results as they are; the next line
\* read in the class is appended to the old buffer, and the slot of the
\* declaration then handed over carries the old starting line.
C30_PendingBufferSurvives ==
    /\ [](scan.accum # <<>> =>
            \A q \in 1..Len(scan.results) :
                scan.results[q].line_number < scan.accum_start_line)
    /\ [][scan'.accum # <<>> => scan'.results = scan.results]_vars
    /\ [][(~scan.in_class \/ ~scan'.in_class) =>
            /\ scan'.accum = scan.accum
            /\ scan'.accum_start_line = scan.accum_start_line
            /\ scan'.results = scan.results]_vars
    /\ [][(scan.accum # <<>> /\ Accumulating) =>
            /\ scan'.accum_start_line = scan.accum_start_line
            /\ (scan'.handed = Appended \/ scan'.accum = Appended)
            /\ SlotKeepsStartLine]_vars

\* The declaration opened on line 2 stayed pending while the class was
\* left on line 3 and entered again on line 4; line 5 has been appended to
\* it and its slot is listed with line 2.
C30_Witness ==
    /\ line_no = 5
    /\ scan.in_class
    /\ scan.handed = <<" ", "virtual", " ", "void", " ", "u", "(", ")", " ",
                       "int", " ", "x", ";">>
    /\ scan.results =
           <<[name |-> <<"u">>, is_destructor |-> FALSE, line_number |-> 2]>>

\* The input has ended in the class with a declaration pending and
\* nothing listed for it.
PendingAtEndOfInput ==
    /\ line_no = MaxReentryLines
    /\ scan.in_class
    /\ scan.accum # <<>>
    /\ scan.accum_start_line = 3
    /\ Len(scan.results) = 1
    /\ scan.results[1].line_number = 2

====
